---- MODULE Spec2Model ----
(***************************************************************************)
(* Model of scripts/fetch_news.py: the per-category aggregation with its   *)
(* GNews fallback (_section), the composition of the brief (build_brief)   *)
(* and the patch of index.html (strip the old brief, locate the insertion  *)
(* point, splice the marker-wrapped brief); and, at the end of the module, *)
(* of scripts/scripts_fetch_news.py, the NewsAPI variant of the script.    *)
(*                                                                         *)
(* A document is a sequence of tokens.  A token stands for one lexical     *)
(* unit the script's regular expressions and searches can tell apart: a    *)
(* sentinel marker, a tag, one character of a class, a rendered block.     *)
(* The patterns are matched case-insensitively (re.I), so a token stands   *)
(* for every spelling of its unit.  The anchor </main> is found in         *)
(* html_txt.lower(), whose offsets need not be those of html_txt: it is    *)
(* spelled out character by character, in small letters and in capitals.   *)
(***************************************************************************)
EXTENDS Integers, Sequences, FiniteSets, TLC

VARIABLES
    \* ---- the run of the script (module level of fetch_news.py)
    pc,          \* position in the script
    file,        \* index.html on disk: a document, or Missing
    html_txt,    \* the text read, then stripped
    parts,       \* build_brief's list of blocks
    catIdx,      \* build_brief's position in CATS
    brief_html,  \* the fragment
    wrapped,     \* START \n fragment \n END
    insert_at,   \* number of tokens before the insertion point
    today,       \* dt.date.today()
    CLIENT_QUERY,
    GNEWS_KEY,   \* TRUE when the key is set
    API_KEY,     \* scripts_fetch_news.py: TRUE when NEWS_KEY is set
    \* ---- one call of _section, step by step
    spc,         \* position in _section
    feedIdx,     \* number of feeds of the category fetched so far
    entries,     \* candidates of the feed being scanned
    epos,        \* number of candidates of it scanned so far
    seen,        \* titles seen
    items,       \* rendered items kept
    \* ---- history, read by the properties only
    doc0,        \* the document before the first patch
    prevDoc,     \* the document before the latest patch
    frags,       \* the fragments of the patch runs so far, in order
    fetchLog,    \* the fetches _section issued, in order, with what each returned
    catLog       \* what each aggregation of the run returned, in call order

vars == <<pc, file, html_txt, parts, catIdx, brief_html, wrapped, insert_at,
          today, CLIENT_QUERY, GNEWS_KEY, spc, feedIdx, entries, epos, seen,
          items, doc0, prevDoc, frags, fetchLog, API_KEY, catLog>>

runVars == <<pc, html_txt, parts, catIdx, brief_html, wrapped, insert_at,
             CLIENT_QUERY, API_KEY, catLog>>
secVars == <<spc, feedIdx, entries, epos, seen, items, fetchLog>>

-----------------------------------------------------------------------------
(* Bounds of the model.                                                    *)

\* segments a generated document is made of, at most
MaxSegs == 3
\* patch runs on one document, at most
MaxRuns == 2
\* distinct titles the feeds draw from
NumTitles == 6
\* entries a feed or the search returns, at most (before the script's cut)
MaxEntries == 11

-----------------------------------------------------------------------------
(* Tokens.                                                                 *)

Tok(kind) == [k |-> kind, name |-> "", items |-> <<>>, day |-> 0]

START == Tok("start")            \* <!-- DAILY BRIEF START -->
END == Tok("end")                \* <!-- DAILY BRIEF END -->
NL == Tok("nl")                  \* "\n"
Text == Tok("text")              \* any other character
SChar == Tok("s_char")           \* one of  s  S  \
Gt == Tok("gt")                  \* >
SectionTag == Tok("section_tag") \* <section
IdPosts == Tok("id_posts")       \* id="posts"  or  id='posts'
SectionClose == Tok("section_close")  \* </section>
Lt == Tok("lt")                  \* <
Slash == Tok("slash")            \* /
Ch(c) == Tok(c)                  \* the letter c
IDot == Tok("I_dot")             \* U+0130, capital I with dot above
DotAbove == Tok("dot_above")     \* U+0307, combining dot above

\* "</main>", character by character, and the same tag in capitals
MainClose == <<Lt, Slash, Ch("m"), Ch("a"), Ch("i"), Ch("n"), Gt>>
MainCloseUpper == <<Lt, Slash, Ch("M"), Ch("A"), Ch("I"), Ch("N"), Gt>>
Placeholder == Tok("placeholder")     \* <p><em>(No news fetched)</em></p>

\* <article><h2>Daily Brief - {today}</h2></article>
Heading(d) == [Tok("heading") EXCEPT !.day = d]

\* <article><h2>{name}</h2><ul>{items}</ul></article>
Block(nm, its) == [Tok("block") EXCEPT !.name = nm, !.items = its]

Missing == <<Tok("missing")>>    \* no index.html

RECURSIVE Count(_, _)
Count(doc, t) ==
    IF doc = <<>> THEN 0
    ELSE (IF Head(doc) = t THEN 1 ELSE 0) + Count(Tail(doc), t)

\* the first position >= from that holds token t, or 0
RECURSIVE Find(_, _, _)
Find(doc, t, from) ==
    IF from > Len(doc) THEN 0
    ELSE IF doc[from] = t THEN from
    ELSE Find(doc, t, from + 1)

\* the last position of t, or 0
RECURSIVE RFind(_, _, _)
RFind(doc, t, from) ==
    IF from < 1 THEN 0
    ELSE IF doc[from] = t THEN from
    ELSE RFind(doc, t, from - 1)

\* str.lower() of one character: U+0130 becomes the two characters i and
\* U+0307, a capital letter its small letter, anything else itself
LowerChar(t) ==
    IF t = IDot THEN <<Ch("i"), DotAbove>>
    ELSE IF t = Ch("M") THEN <<Ch("m")>>
    ELSE IF t = Ch("A") THEN <<Ch("a")>>
    ELSE IF t = Ch("I") THEN <<Ch("i")>>
    ELSE IF t = Ch("N") THEN <<Ch("n")>>
    ELSE <<t>>

\* html_txt.lower()
RECURSIVE Lower(_)
Lower(doc) ==
    IF doc = <<>> THEN <<>> ELSE LowerChar(Head(doc)) \o Lower(Tail(doc))

\* s.rfind(pat): the last position where pat starts in s, or 0
RFindStr(s, pat) ==
    LET hits == {p \in 1..(Len(s) - Len(pat) + 1) :
                    SubSeq(s, p, p + Len(pat) - 1) = pat}
    IN  IF hits = {} THEN 0
        ELSE CHOOSE p \in hits : \A q \in hits : q <= p

-----------------------------------------------------------------------------
(* The patch of index.html.                                                *)

\* re.sub(f"{START}[\s\S]*?{END}", "", html_txt, flags=re.I): every
\* non-overlapping match, leftmost first, each one from a start marker to
\* the first end marker after it.
RECURSIVE StripFrom(_, _)
StripFrom(doc, from) ==
    LET s == Find(doc, START, from)
        e == IF s = 0 THEN 0 ELSE Find(doc, END, s + 1)
    IN  IF s = 0 \/ e = 0
        THEN SubSeq(doc, from, Len(doc))
        ELSE SubSeq(doc, from, s - 1) \o StripFrom(doc, e + 1)

\* count=1: only the first old brief is removed
StripFirstOnly(doc) ==
    LET s == Find(doc, START, 1)
        e == IF s = 0 THEN 0 ELSE Find(doc, END, s + 1)
    IN  IF s = 0 \/ e = 0 THEN doc
        ELSE SubSeq(doc, 1, s - 1) \o SubSeq(doc, e + 1, Len(doc))

\* [\s\S]* for [\s\S]*?: one match, from the first start marker to the last
\* end marker
StripGreedy(doc) ==
    LET s == Find(doc, START, 1)
        e == IF s = 0 THEN 0 ELSE RFind(doc, END, Len(doc))
    IN  IF s = 0 \/ e <= s THEN doc
        ELSE SubSeq(doc, 1, s - 1) \o SubSeq(doc, e + 1, Len(doc))

Strip(doc) == StripFrom(doc, 1)

\* f"{START}\n{brief_html}\n{END}"
Wrap(brief) == <<START, NL>> \o brief \o <<NL, END>>

\* tokens [^>] matches all of
NoGt(t) ==
    t.k \in {"section_tag", "id_posts", "s_char", "text", "lt", "slash",
             "I_dot", "dot_above", "m", "a", "i", "n", "M", "A", "I", "N"}

\* The pattern r'<section[^>]*id=[\'"]posts[\'"][\\s\\S]*?</section>' is a
\* raw string: its class [\\s\\S] holds the backslash, s and S, not every
\* character.  A match from p: <section at p, id="posts" at q with only
\* [^>] tokens between, then only class characters up to </section> at r.
\* [^>]* is greedy: the largest q that leads to a match is taken.
ClassRunEnd(doc, q) ==
    LET stops == {r \in (q + 1)..Len(doc) : doc[r] # SChar}
    IN  IF stops = {} THEN 0
        ELSE LET r == CHOOSE x \in stops : \A y \in stops : x <= y
             IN  IF doc[r] = SectionClose THEN r ELSE 0

MatchIds(doc, p) ==
    {q \in (p + 1)..Len(doc) :
        /\ doc[q] = IdPosts
        /\ \A j \in (p + 1)..(q - 1) : NoGt(doc[j])
        /\ ClassRunEnd(doc, q) # 0}

MatchStarts(doc) ==
    {p \in 1..Len(doc) : doc[p] = SectionTag /\ MatchIds(doc, p) # {}}

\* re.search(...): the position of the </section> ending the leftmost
\* match, or 0 when nothing matches
SectionSearch(doc) ==
    IF MatchStarts(doc) = {} THEN 0
    ELSE LET p == CHOOSE x \in MatchStarts(doc) :
                      \A y \in MatchStarts(doc) : x <= y
             q == CHOOSE x \in MatchIds(doc, p) :
                      \A y \in MatchIds(doc, p) : y <= x
         IN  ClassRunEnd(doc, q)

\* insert_at: m.end() - len("</section>") when the pattern matches, else
\* the offset of the last </main> in html_txt.lower(), else the end of the
\* text
Locate(doc) ==
    LET m == SectionSearch(doc)
        end_main == RFindStr(Lower(doc), MainClose)
    IN  IF m # 0 THEN m - 1
        ELSE IF end_main # 0 THEN end_main - 1
        ELSE Len(doc)

\* html_txt[:insert_at] + wrapped + html_txt[insert_at + 1:]
SpliceOver(doc, at, w) ==
    SubSeq(doc, 1, at) \o w \o SubSeq(doc, at + 2, Len(doc))

\* html_txt[:insert_at] + wrapped + html_txt[insert_at:]
Splice(doc, at, w) == SubSeq(doc, 1, at) \o w \o SubSeq(doc, at + 1, Len(doc))

\* one run's effect on the document, given the fragment it built
Patch(doc, brief) ==
    LET stripped == Strip(doc)
    IN  Splice(stripped, Locate(stripped), Wrap(brief))

-----------------------------------------------------------------------------
(* Documents the model starts from: up to MaxSegs segments, each a piece   *)
(* of a page: text, a lone marker, an old brief between its markers, the   *)
(* closing </main>, a <section id="posts"> element with content, the one   *)
(* form of it the script's pattern matches, </MAIN>, and the character     *)
(* U+0130, whose lower case is two characters long.                        *)

OldBrief == <<START, NL, Heading(0), NL, END>>
PostsSection == <<SectionTag, IdPosts, Gt, Text, SectionClose>>
BareSection == <<SectionTag, IdPosts, SChar, SectionClose>>

Segments ==
    {<<Text>>, <<START>>, <<END>>, OldBrief, MainClose, PostsSection,
     BareSection, MainCloseUpper, <<IDot>>}

RECURSIVE DocsUpTo(_)
DocsUpTo(n) ==
    IF n = 0 THEN {<<>>}
    ELSE LET P == DocsUpTo(n - 1)
         IN  P \cup {d \o s : d \in P, s \in Segments}

Docs == DocsUpTo(MaxSegs)

\* Fragments a patch run is handed on day d: a brief with one block, the
\* placeholder, and two that carry marker text inside.
FragShapes(d) ==
    {<<Heading(d), NL, Block("Tech & AI", <<>>)>>,
     <<Placeholder>>,
     <<Heading(d), END, Text>>,
     <<START, Heading(d)>>}

-----------------------------------------------------------------------------
(* SpecPatch: successive runs' patches of one document.                    *)

IdleRun ==
    /\ pc = "idle" /\ html_txt = <<>> /\ parts = <<>> /\ catIdx = 0
    /\ brief_html = <<>> /\ wrapped = <<>> /\ insert_at = 0
    /\ CLIENT_QUERY = "" /\ API_KEY = FALSE /\ catLog = <<>>

IdleSection ==
    /\ spc = "idle" /\ feedIdx = 0 /\ entries = <<>> /\ epos = 0
    /\ seen = {} /\ items = <<>> /\ fetchLog = <<>>

InitPatch ==
    /\ file \in Docs
    /\ doc0 = file
    /\ prevDoc = file
    /\ frags = <<>>
    /\ today = 1
    /\ GNEWS_KEY = FALSE
    /\ IdleRun
    /\ IdleSection

\* a whole run of the patch: read, strip, locate, splice, write
PatchRun ==
    /\ Len(frags) < MaxRuns
    /\ \E f \in FragShapes(today) :
          /\ file' = Patch(file, f)
          /\ prevDoc' = file
          /\ frags' = Append(frags, f)
    /\ today' = today + 1
    /\ UNCHANGED <<doc0, GNEWS_KEY, runVars, secVars>>

NextPatch == PatchRun

SpecPatch == InitPatch /\ [][NextPatch]_vars

-----------------------------------------------------------------------------
(* _section: the aggregation of one category.                              *)

\* items kept per category: if len(items) == 5
Cap == 5
\* fp.entries[:10]
RssCut == 10
\* feed.entries[:5] in _gnews_fallback
GnewsCut == 5
\* every category of CATS lists two feeds
FeedsPerCategory == 2

Titles == 1..NumTitles

\* a feedparser entry: its title and its link (the summary is not modelled)
Entry(t, l) == [title |-> t, link |-> l]

\* _fmt: the <li> with the link and the escaped title
Fmt(e) == [href |-> e.link, text |-> e.title]

Cut(s, n) == SubSeq(s, 1, IF Len(s) < n THEN Len(s) ELSE n)

\* a feedparser entry is a dict: an entry of a malformed feed may lack a key
HasTitle(e) == "title" \in DOMAIN e
HasLink(e) == "link" \in DOMAIN e

\* if e.title in seen
IsSeen(e, sn) == e.title \in sn

\* seen is not updated
SeenForgotten(e, sn) == sn

\* seen.add(e.title)
SeenAfter(e, sn) == sn \cup {e.title}

\* items.insert(0, ...)
KeepFirst(its, e) == <<Fmt(e)>> \o its

\* items.append(_fmt(e))
Keep(its, e) == Append(its, Fmt(e))

\* if len(items) > 5
CapPassed(its) == Len(its) > Cap

\* if len(items) == 5: break
CapReached(its) == Len(its) = Cap

\* the fallback whenever the feed alone cannot fill the category
FallbackWhenShort(primary) == Len(primary) < Cap

\* fp.entries[:10] or _gnews_fallback(...): the right operand is evaluated
\* only when the left one is empty
NeedsFallback(primary) == primary = <<>>

\* e.title in the loop of _section and entry.title, entry.link in _fmt raise
\* AttributeError for a missing key; an entry whose title was seen is
\* skipped before _fmt is called
Raises(e, sn) == IF ~HasTitle(e) THEN TRUE ELSE ~IsSeen(e, sn) /\ ~HasLink(e)

\* _gnews_fallback: [] without a key, else feed.entries[:5] of the answer g
GnewsFallback(g, key) == IF ~key THEN <<>> ELSE Cut(g, GnewsCut)

\* the loop over the candidates of one source, from candidate k on
RECURSIVE ScanAll(_, _, _, _)
ScanAll(ents, k, sn, its) ==
    IF k > Len(ents) THEN [seen |-> sn, items |-> its, raised |-> FALSE]
    ELSE IF Raises(ents[k], sn)
         THEN [seen |-> sn, items |-> its, raised |-> TRUE]
    ELSE IF IsSeen(ents[k], sn) THEN ScanAll(ents, k + 1, sn, its)
    ELSE IF CapReached(Keep(its, ents[k]))
         THEN [seen |-> SeenAfter(ents[k], sn), items |-> Keep(its, ents[k]),
               raised |-> FALSE]
         ELSE ScanAll(ents, k + 1, SeenAfter(ents[k], sn), Keep(its, ents[k]))

\* the loop over the feeds, from feed i on: fps[i] is what feed i returns,
\* gs[i] what the search returns when asked for it; the result holds the
\* items kept and whether an exception left the function
RECURSIVE SectionItems(_, _, _, _, _)
SectionItems(fps, gs, key, i, st) ==
    IF i > Len(fps) THEN st
    ELSE LET primary == Cut(fps[i], RssCut)
             ents == IF NeedsFallback(primary)
                     THEN GnewsFallback(gs[i], key) ELSE primary
             st2 == ScanAll(ents, 1, st.seen, st.items)
         IN  IF st2.raised \/ CapReached(st2.items) THEN st2
             ELSE SectionItems(fps, gs, key, i + 1, st2)

SectionRun(fps, gs, key) ==
    SectionItems(fps, gs, key, 1,
                 [seen |-> {}, items |-> <<>>, raised |-> FALSE])

\* the block is built even when no item was kept
SectionKeepEmpty(name, fps, gs, key) ==
    <<Block(name, SectionRun(fps, gs, key).items)>>

\* _section's return value: "" for no items, else the article block
Section(name, fps, gs, key) ==
    LET its == SectionRun(fps, gs, key).items
    IN  IF its = <<>> THEN <<>> ELSE <<Block(name, its)>>

\* What a feed or the search may return: n titles from title a on, going
\* upwards, downwards (cyclically, so a long answer repeats titles) or
\* staying on a, each entry with the link of its source: the feed's slot,
\* or 0 for GNews.
Window(a, n, step, l) ==
    [i \in 1..n |-> Entry(((a - 1 + step * (i - 1)) % NumTitles) + 1, l)]

\* answers of a malformed feed: an entry without title, alone or after a
\* good entry, and an entry without link, alone or after an entry of the
\* same title
MalformedResponses(l) ==
    {<<[link |-> l]>>, <<Entry(1, l), [link |-> l]>>,
     <<[title |-> 1]>>, <<Entry(1, l), [title |-> 1]>>}

Responses(l) ==
    {Window(a, n, step, l) :
        a \in Titles, n \in 0..MaxEntries, step \in {0, 1, NumTitles - 1}}
    \cup MalformedResponses(l)

InitSection ==
    /\ spc = "for_url"
    /\ feedIdx = 0
    /\ entries = <<>>
    /\ epos = 0
    /\ seen = {}
    /\ items = <<>>
    /\ fetchLog = <<>>
    /\ GNEWS_KEY \in BOOLEAN
    /\ file = <<>> /\ doc0 = <<>> /\ prevDoc = <<>> /\ frags = <<>>
    /\ today = 1
    /\ IdleRun

\* for url in feeds: fp = feedparser.parse(url); the feed has entries
FetchFeed ==
    /\ spc = "for_url"
    /\ feedIdx < FeedsPerCategory
    /\ \E fp \in Responses(feedIdx + 1) :
          /\ ~NeedsFallback(Cut(fp, RssCut))
          /\ entries' = Cut(fp, RssCut)
          /\ fetchLog' = Append(fetchLog,
                [kind |-> "rss", slot |-> feedIdx + 1, sent |-> TRUE,
                 got |-> Cut(fp, RssCut)])
    /\ feedIdx' = feedIdx + 1
    /\ epos' = 0
    /\ spc' = "for_e"
    /\ UNCHANGED <<seen, items, file, doc0, prevDoc, frags, today, GNEWS_KEY,
                   runVars>>

\* for url in feeds: fp = feedparser.parse(url); the feed is empty, so
\* _gnews_fallback is called: [] without a key, else feed.entries[:5]
FetchFeedFallback ==
    /\ spc = "for_url"
    /\ feedIdx < FeedsPerCategory
    /\ \E fp \in Responses(feedIdx + 1), g \in Responses(0) :
          /\ NeedsFallback(Cut(fp, RssCut))
          /\ entries' = GnewsFallback(g, GNEWS_KEY)
          /\ fetchLog' = fetchLog \o
                <<[kind |-> "rss", slot |-> feedIdx + 1, sent |-> TRUE,
                   got |-> Cut(fp, RssCut)],
                  [kind |-> "gnews", slot |-> feedIdx + 1, sent |-> GNEWS_KEY,
                   got |-> GnewsFallback(g, GNEWS_KEY)]>>
    /\ feedIdx' = feedIdx + 1
    /\ epos' = 0
    /\ spc' = "for_e"
    /\ UNCHANGED <<seen, items, file, doc0, prevDoc, frags, today, GNEWS_KEY,
                   runVars>>

\* for e in entries: a title already seen
SkipEntry ==
    /\ spc = "for_e"
    /\ epos < Len(entries)
    /\ ~Raises(entries[epos + 1], seen)
    /\ IsSeen(entries[epos + 1], seen)
    /\ epos' = epos + 1
    /\ UNCHANGED <<spc, feedIdx, entries, seen, items, fetchLog, file, doc0,
                   prevDoc, frags, today, GNEWS_KEY, runVars>>

\* for e in entries: a new title is kept; the loop is left at 5 items
KeepEntry ==
    /\ spc = "for_e"
    /\ epos < Len(entries)
    /\ ~Raises(entries[epos + 1], seen)
    /\ ~IsSeen(entries[epos + 1], seen)
    /\ seen' = SeenAfter(entries[epos + 1], seen)
    /\ items' = Keep(items, entries[epos + 1])
    /\ epos' = epos + 1
    /\ spc' = IF CapReached(items') THEN "after_e" ELSE "for_e"
    /\ UNCHANGED <<feedIdx, entries, fetchLog, file, doc0, prevDoc, frags,
                   today, GNEWS_KEY, runVars>>

\* for e in entries: e.title or, in _fmt, entry.link raises AttributeError,
\* which nothing catches
RaiseEntry ==
    /\ spc = "for_e"
    /\ epos < Len(entries)
    /\ Raises(entries[epos + 1], seen)
    /\ spc' = "raised"
    /\ UNCHANGED <<feedIdx, entries, epos, seen, items, fetchLog, file, doc0,
                   prevDoc, frags, today, GNEWS_KEY, runVars>>

\* the candidates of the feed are exhausted
EndEntries ==
    /\ spc = "for_e"
    /\ epos = Len(entries)
    /\ spc' = "after_e"
    /\ UNCHANGED <<feedIdx, entries, epos, seen, items, fetchLog, file, doc0,
                   prevDoc, frags, today, GNEWS_KEY, runVars>>

\* the loop over the feeds without its break
AfterEntriesNoBreak ==
    /\ spc = "after_e"
    /\ spc' = "for_url"
    /\ UNCHANGED <<feedIdx, entries, epos, seen, items, fetchLog, file, doc0,
                   prevDoc, frags, today, GNEWS_KEY, runVars>>

\* if len(items) == 5: break  (the loop over the feeds)
AfterEntries ==
    /\ spc = "after_e"
    /\ spc' = IF CapReached(items) THEN "done" ELSE "for_url"
    /\ UNCHANGED <<feedIdx, entries, epos, seen, items, fetchLog, file, doc0,
                   prevDoc, frags, today, GNEWS_KEY, runVars>>

\* the feeds are exhausted
EndFeeds ==
    /\ spc = "for_url"
    /\ feedIdx = FeedsPerCategory
    /\ spc' = "done"
    /\ UNCHANGED <<feedIdx, entries, epos, seen, items, fetchLog, file, doc0,
                   prevDoc, frags, today, GNEWS_KEY, runVars>>

NextSection ==
    \/ FetchFeed
    \/ FetchFeedFallback
    \/ SkipEntry
    \/ KeepEntry
    \/ RaiseEntry
    \/ EndEntries
    \/ AfterEntries
    \/ EndFeeds

SpecSection == InitSection /\ [][NextSection]_vars

-----------------------------------------------------------------------------
(* build_brief and the run of the script.                                  *)

\* the keys of CATS, in their order
CATS == <<"World Politics", "Tech & AI", "Finance & Economy", "Innovation">>

\* _client_block: [_fmt(e) for e in entries] raises on an entry without
\* title or link
ClientRaises(q, g, key) ==
    /\ q # ""
    /\ \E i \in 1..Len(GnewsFallback(g, key)) :
          ~HasTitle(GnewsFallback(g, key)[i]) \/ ~HasLink(GnewsFallback(g, key)[i])

\* _client_block: "" without a query or without results
ClientBlock(q, g, key) ==
    IF q = "" THEN <<>>
    ELSE LET ents == GnewsFallback(g, key)
         IN  IF ents = <<>> THEN <<>>
             ELSE <<Block("Client Watch", [i \in 1..Len(ents) |-> Fmt(ents[i])])>>

\* "\n".join(parts)
RECURSIVE Join(_)
Join(ps) ==
    IF ps = <<>> THEN <<>>
    ELSE IF Len(ps) = 1 THEN <<ps[1]>>
    ELSE <<ps[1], NL>> \o Join(Tail(ps))

\* the heading is left out of the result
BriefWithoutHeading(ps) == Join(Tail(ps))

\* return "\n".join(parts) if len(parts) > 1 else ""
BriefOf(ps) == IF Len(ps) > 1 THEN Join(ps) ELSE <<>>

\* brief_html = build_brief()
NoPlaceholder(b) == b

\* brief_html = build_brief() or "<p><em>(No news fetched)</em></p>"
OrPlaceholder(b) == IF b = <<>> THEN <<Placeholder>> ELSE b

\* What a feed or the search returns during a full run: nothing, one
\* entry, or one entry without title.
BriefResponses == {<<>>, <<Entry(1, 0)>>, <<[link |-> 0]>>}

\* What the feeds of a category return during a full run, and what the
\* search returns when it is asked in place of a feed.
BriefFeeds ==
    {<<<<>>, <<>>>>, <<<<Entry(1, 0)>>, <<>>>>,
     <<<<Entry(1, 0)>>, <<Entry(1, 0)>>>>, <<<<>>, <<[link |-> 0]>>>>}

BriefSearches ==
    {<<<<>>, <<>>>>, <<<<Entry(1, 0)>>, <<>>>>, <<<<>>, <<[link |-> 0]>>>>}

\* What the search returns for the watch term: also the same title twice,
\* and more entries than _gnews_fallback keeps.
ClientResponses ==
    BriefResponses \cup
    {<<Entry(1, 0), Entry(1, 0)>>,
     [i \in 1..(GnewsCut + 1) |-> Entry(i, 0)]}

\* the documents a full run starts from
RunDocs == DocsUpTo(MaxSegs - 1) \cup {Missing}

Init ==
    /\ pc = "read"
    /\ file \in RunDocs
    /\ doc0 = file
    /\ prevDoc = file
    /\ frags = <<>>
    /\ today = 1
    /\ CLIENT_QUERY \in {"", "acme"}
    /\ GNEWS_KEY \in BOOLEAN
    /\ html_txt = <<>> /\ parts = <<>> /\ catIdx = 0
    /\ brief_html = <<>> /\ wrapped = <<>> /\ insert_at = 0
    /\ API_KEY = FALSE
    /\ catLog = <<>>
    /\ IdleSection

\* html_txt = open("index.html").read()
ReadIndex ==
    /\ pc = "read"
    /\ file # Missing
    /\ html_txt' = file
    /\ pc' = "strip"
    /\ UNCHANGED <<file, parts, catIdx, brief_html, wrapped, insert_at, today,
                   CLIENT_QUERY, GNEWS_KEY, doc0, prevDoc, frags, secVars, API_KEY, catLog>>

\* except FileNotFoundError: sys.exit("index.html missing")
ExitMissing ==
    /\ pc = "read"
    /\ file = Missing
    /\ pc' = "exit"
    /\ UNCHANGED <<file, html_txt, parts, catIdx, brief_html, wrapped,
                   insert_at, today, CLIENT_QUERY, GNEWS_KEY, doc0, prevDoc,
                   frags, secVars, API_KEY, catLog>>

\* the stripped text is written back to index.html at once
StripOldInPlace ==
    /\ pc = "strip"
    /\ html_txt' = Strip(html_txt)
    /\ file' = Strip(html_txt)
    /\ pc' = "brief"
    /\ UNCHANGED <<parts, catIdx, brief_html, wrapped, insert_at, today,
                   CLIENT_QUERY, GNEWS_KEY, doc0, prevDoc, frags, secVars,
                   API_KEY, catLog>>

\* remove previous brief
StripOld ==
    /\ pc = "strip"
    /\ html_txt' = Strip(html_txt)
    /\ pc' = "brief"
    /\ UNCHANGED <<file, parts, catIdx, brief_html, wrapped, insert_at, today,
                   CLIENT_QUERY, GNEWS_KEY, doc0, prevDoc, frags, secVars, API_KEY, catLog>>

\* build_brief: parts = [heading]
StartBrief ==
    /\ pc = "brief"
    /\ parts' = <<Heading(today)>>
    /\ catIdx' = 0
    /\ pc' = "cats"
    /\ UNCHANGED <<file, html_txt, brief_html, wrapped, insert_at, today,
                   CLIENT_QUERY, GNEWS_KEY, doc0, prevDoc, frags, secVars, API_KEY, catLog>>

\* for hdr, feeds in CATS.items(): blk = _section(hdr, feeds); if blk: ...
BuildCategory ==
    /\ pc = "cats"
    /\ catIdx < Len(CATS)
    /\ \E fps \in BriefFeeds, gs \in BriefSearches :
          /\ ~SectionRun(fps, gs, GNEWS_KEY).raised
          /\ parts' = parts \o Section(CATS[catIdx + 1], fps, gs, GNEWS_KEY)
          /\ catLog' = Append(catLog,
                [name |-> CATS[catIdx + 1],
                 items |-> SectionRun(fps, gs, GNEWS_KEY).items])
    /\ catIdx' = catIdx + 1
    /\ UNCHANGED <<pc, file, html_txt, brief_html, wrapped, insert_at, today,
                   CLIENT_QUERY, GNEWS_KEY, doc0, prevDoc, frags, secVars,
                   API_KEY>>

\* _section raises: the traceback ends the script
AbortCategory ==
    /\ pc = "cats"
    /\ catIdx < Len(CATS)
    /\ \E fps \in BriefFeeds, gs \in BriefSearches :
          /\ SectionRun(fps, gs, GNEWS_KEY).raised
          /\ catLog' = Append(catLog,
                [name |-> CATS[catIdx + 1],
                 items |-> SectionRun(fps, gs, GNEWS_KEY).items])
    /\ pc' = "aborted"
    /\ UNCHANGED <<file, html_txt, parts, catIdx, brief_html, wrapped,
                   insert_at, today, CLIENT_QUERY, GNEWS_KEY, doc0, prevDoc,
                   frags, secVars, API_KEY>>

\* cb = _client_block(CLIENT_QUERY); if cb: parts.append(cb)
BuildClient ==
    /\ pc = "cats"
    /\ catIdx = Len(CATS)
    /\ \E g \in ClientResponses :
          /\ ~ClientRaises(CLIENT_QUERY, g, GNEWS_KEY)
          /\ parts' = parts \o ClientBlock(CLIENT_QUERY, g, GNEWS_KEY)
          /\ catLog' = IF CLIENT_QUERY = "" THEN catLog
                       ELSE Append(catLog,
                              [name |-> "Client Watch",
                               items |-> [i \in 1..Len(GnewsFallback(g, GNEWS_KEY))
                                            |-> Fmt(GnewsFallback(g, GNEWS_KEY)[i])]])
    /\ pc' = "join"
    /\ UNCHANGED <<file, html_txt, catIdx, brief_html, wrapped, insert_at,
                   today, CLIENT_QUERY, GNEWS_KEY, doc0, prevDoc, frags,
                   secVars, API_KEY>>

\* _client_block raises: the traceback ends the script
AbortClient ==
    /\ pc = "cats"
    /\ catIdx = Len(CATS)
    /\ \E g \in ClientResponses : ClientRaises(CLIENT_QUERY, g, GNEWS_KEY)
    /\ catLog' = Append(catLog, [name |-> "Client Watch", items |-> <<>>])
    /\ pc' = "aborted"
    /\ UNCHANGED <<file, html_txt, parts, catIdx, brief_html, wrapped,
                   insert_at, today, CLIENT_QUERY, GNEWS_KEY, doc0, prevDoc,
                   frags, secVars, API_KEY>>

\* build_brief returns; brief_html and wrapped are set
WrapBrief ==
    /\ pc = "join"
    /\ brief_html' = OrPlaceholder(BriefOf(parts))
    /\ wrapped' = Wrap(brief_html')
    /\ pc' = "locate"
    /\ UNCHANGED <<file, html_txt, parts, catIdx, insert_at, today,
                   CLIENT_QUERY, GNEWS_KEY, doc0, prevDoc, frags, secVars, API_KEY, catLog>>

\* inject inside <section id="posts"> or fall back to </main>
LocateInsert ==
    /\ pc = "locate"
    /\ insert_at' = Locate(html_txt)
    /\ pc' = "write"
    /\ UNCHANGED <<file, html_txt, parts, catIdx, brief_html, wrapped, today,
                   CLIENT_QUERY, GNEWS_KEY, doc0, prevDoc, frags, secVars, API_KEY, catLog>>

\* open("index.html", "w").write(new_html)
WriteIndex ==
    /\ pc = "write"
    /\ file' = Splice(html_txt, insert_at, wrapped)
    /\ prevDoc' = file
    /\ frags' = Append(frags, brief_html)
    /\ pc' = "done"
    /\ UNCHANGED <<html_txt, parts, catIdx, brief_html, wrapped, insert_at,
                   today, CLIENT_QUERY, GNEWS_KEY, doc0, secVars, API_KEY, catLog>>

Next ==
    \/ ReadIndex
    \/ ExitMissing
    \/ StripOld
    \/ StartBrief
    \/ BuildCategory
    \/ AbortCategory
    \/ BuildClient
    \/ AbortClient
    \/ WrapBrief
    \/ LocateInsert
    \/ WriteIndex

Spec == Init /\ [][Next]_vars

-----------------------------------------------------------------------------
(* Properties of _section.                                                 *)

\* the candidates scanned: per slot, the last answer logged for it (the
\* feed's, or the search's when the feed was empty), in slot order
RECURSIVE Candidates(_)
Candidates(log) ==
    IF log = <<>> THEN <<>>
    ELSE IF Len(log) >= 2 /\ log[2].kind = "gnews"
         THEN log[1].got \o log[2].got \o Candidates(SubSeq(log, 3, Len(log)))
         ELSE log[1].got \o Candidates(Tail(log))

\* the entries of s whose title no earlier entry of s has
RECURSIVE FirstOfTitle(_, _)
FirstOfTitle(s, had) ==
    IF s = <<>> THEN <<>>
    ELSE IF ~HasTitle(Head(s)) THEN FirstOfTitle(Tail(s), had)
    ELSE IF Head(s).title \in had THEN FirstOfTitle(Tail(s), had)
    ELSE <<Head(s)>> \o FirstOfTitle(Tail(s), had \cup {Head(s).title})

\* C4: the items kept for the category never include two items with the
\* same title.
C4_NoDuplicateTitle ==
    \A i, j \in 1..Len(items) : i # j => items[i].text # items[j].text

\* a title met a second time, within a feed and across the feeds and the
\* search, with several items kept
C4_Witness ==
    /\ spc = "done"
    /\ Len(fetchLog) = 3
    /\ Len(items) >= 3
    /\ \E i, j \in 1..Len(fetchLog[1].got) :
          i # j /\ fetchLog[1].got[i].title = fetchLog[1].got[j].title
    /\ \E i \in 1..Len(fetchLog[1].got), j \in 1..Len(fetchLog[3].got) :
          fetchLog[1].got[i].title = fetchLog[3].got[j].title

\* C5: at every point of the scan and at its end, at most 5 items are kept.
C5_AtMostCap == Len(items) <= Cap

\* the cap met in the second feed, with candidates left unscanned
C5_Witness ==
    /\ spc = "done"
    /\ Len(items) = Cap
    /\ feedIdx = FeedsPerCategory
    /\ epos < Len(entries)
    /\ Len(Candidates(fetchLog)) > Cap + 2

\* C6: the search is called for a slot exactly when the feed of that slot
\* returned nothing, right after it, and at most once per slot.
C6_FallbackIffEmpty ==
    /\ \A j \in 1..Len(fetchLog) :
          fetchLog[j].kind = "gnews" =>
             /\ j > 1
             /\ fetchLog[j - 1].kind = "rss"
             /\ fetchLog[j - 1].slot = fetchLog[j].slot
             /\ fetchLog[j - 1].got = <<>>
    /\ \A j \in 1..Len(fetchLog) :
          (fetchLog[j].kind = "rss" /\ fetchLog[j].got = <<>>) =>
             /\ j < Len(fetchLog)
             /\ fetchLog[j + 1].kind = "gnews"
             /\ fetchLog[j + 1].slot = fetchLog[j].slot
    /\ \A i, j \in 1..Len(fetchLog) :
          (fetchLog[i].slot = fetchLog[j].slot
              /\ fetchLog[i].kind = fetchLog[j].kind) => i = j

\* an empty first feed answered by the search, then a feed with entries
C6_Witness ==
    /\ spc = "done"
    /\ Len(fetchLog) = 3
    /\ fetchLog[1].kind = "rss" /\ fetchLog[1].got = <<>>
    /\ fetchLog[2].kind = "gnews" /\ fetchLog[2].sent /\ Len(fetchLog[2].got) = 2
    /\ fetchLog[3].kind = "rss" /\ fetchLog[3].got # <<>>
    /\ Len(items) = 3

\* C7: the result is the first 5 (or fewer) entries with distinct titles of
\* the candidate sequences concatenated in source order, each title's first
\* occurrence, in that order.
C7_DiscoveryOrder ==
    spc = "done" =>
       items = [i \in 1..Len(Cut(FirstOfTitle(Candidates(fetchLog), {}), Cap))
                   |-> Fmt(FirstOfTitle(Candidates(fetchLog), {})[i])]

\* feeds [A, B] then [B, C] give [A, B, C]
C7_Witness ==
    /\ spc = "done"
    /\ Len(fetchLog) = 2
    /\ fetchLog[1].got = <<Entry(1, 1), Entry(2, 1)>>
    /\ fetchLog[2].got = <<Entry(2, 2), Entry(3, 2)>>
    /\ items = <<Fmt(Entry(1, 1)), Fmt(Entry(2, 1)), Fmt(Entry(3, 2))>>

-----------------------------------------------------------------------------
(* Properties of the patch.                                                *)

Last(s) == s[Len(s)]

MarkerFree(f) == Count(f, START) = 0 /\ Count(f, END) = 0

\* the markers of doc pair up as complete regions, one after the other
RECURSIVE Paired(_, _)
Paired(doc, open) ==
    IF doc = <<>> THEN ~open
    ELSE IF Head(doc) = START THEN ~open /\ Paired(Tail(doc), TRUE)
    ELSE IF Head(doc) = END THEN open /\ Paired(Tail(doc), FALSE)
    ELSE Paired(Tail(doc), open)

CompleteRegionsOnly(doc) == Paired(doc, FALSE)

\* the text between the first start marker and the first end marker after it
Between(doc) ==
    LET s == Find(doc, START, 1)
        e == Find(doc, END, s + 1)
    IN  SubSeq(doc, s + 1, e - 1)

\* doc with that region, markers included, deleted
WithoutRegion(doc) ==
    LET s == Find(doc, START, 1)
        e == Find(doc, END, s + 1)
    IN  SubSeq(doc, 1, s - 1) \o SubSeq(doc, e + 1, Len(doc))

IsBriefToken(t) == t.k \in {"heading", "placeholder", "block"}

\* C1, as stated: patching again with the same fragment changes nothing,
\* for every document and every fragment.
C1_IdempotentAlways ==
    frags # <<>> => Patch(file, Last(frags)) = file

\* C1, amended: patch(patch(doc, f), f) = patch(doc, f) for every document
\* doc in which, once its complete regions are stripped, no start marker is
\* left before the insertion point, and every fragment f that holds no end
\* marker.
C1_Idempotent ==
    LET s == Strip(prevDoc)
        f == Last(frags)
    IN  (/\ frags # <<>>
         /\ Count(SubSeq(s, 1, Locate(s)), START) = 0
         /\ Count(f, END) = 0)
        => Patch(file, f) = file

\* a second patch, of a document holding an old brief, a lone end marker
\* and a lone start marker after the insertion point
C1_Witness ==
    LET s == Strip(prevDoc)
    IN  /\ Len(frags) = 2
        /\ Count(SubSeq(s, 1, Locate(s)), START) = 0
        /\ Count(Last(frags), END) = 0
        /\ Count(s, START) > 0
        /\ Count(doc0, END) > 0
        /\ Patch(file, Last(frags)) = file

\* C2: after one or more runs on a document that held zero or more complete
\* marker regions, the document holds exactly one start marker and one end
\* marker, the text between them is the latest run's fragment, and nothing
\* of an earlier brief remains.
C2_OneRegionLatest ==
    (/\ frags # <<>>
     /\ CompleteRegionsOnly(doc0)
     /\ \A i \in 1..Len(frags) : MarkerFree(frags[i]))
    => /\ Count(file, START) = 1
       /\ Count(file, END) = 1
       /\ Between(file) = <<NL>> \o Last(frags) \o <<NL>>
       /\ \A i \in 1..Len(WithoutRegion(file)) :
              ~IsBriefToken(WithoutRegion(file)[i])

\* two runs with different fragments on a document that held two old briefs
C2_Witness ==
    /\ Len(frags) = 2
    /\ frags[1] # frags[2]
    /\ MarkerFree(frags[1]) /\ MarkerFree(frags[2])
    /\ CompleteRegionsOnly(doc0)
    /\ Count(doc0, START) = 2
    /\ Count(file, START) = 1
    /\ Between(file) = <<NL>> \o frags[2] \o <<NL>>

\* C3: for a document without sentinel markers, after any number n >= 1 of
\* runs, deleting the one marker-bounded region gives back the document.
C3_Locality ==
    (/\ frags # <<>>
     /\ MarkerFree(doc0)
     /\ \A i \in 1..Len(frags) : MarkerFree(frags[i]))
    => /\ Count(file, START) = 1
       /\ WithoutRegion(file) = doc0

\* two runs on a marker-free document, the brief spliced inside it
C3_Witness ==
    /\ Len(frags) = 2
    /\ MarkerFree(doc0)
    /\ MarkerFree(frags[1]) /\ MarkerFree(frags[2])
    /\ Find(file, START, 1) > 1
    /\ Find(file, END, 1) < Len(file)
    /\ WithoutRegion(file) = doc0

-----------------------------------------------------------------------------
(* Properties of the run.                                                  *)

Built == pc \in {"locate", "write", "done"}

NoItems == \A i \in 1..Len(parts) : parts[i].k # "block"

\* the opening tags <section ... id="posts" ... > of doc: where they start
\* and where their > is
PostsOpenings(doc) ==
    {pg \in (1..Len(doc)) \X (1..Len(doc)) :
        /\ doc[pg[1]] = SectionTag
        /\ doc[pg[2]] = Gt
        /\ \A j \in (pg[1] + 1)..(pg[2] - 1) : NoGt(doc[j])
        /\ \E q \in (pg[1] + 1)..(pg[2] - 1) : doc[q] = IdPosts}

\* the position of the </section> closing the first such element that has
\* one, or 0
PostsClose(doc) ==
    LET closes == {r \in 1..Len(doc) :
                      /\ doc[r] = SectionClose
                      /\ \E pg \in PostsOpenings(doc) : pg[2] < r}
    IN  IF closes = {} THEN 0
        ELSE CHOOSE r \in closes : \A y \in closes : r <= y

\* the number of marker-bounded regions of doc, from position from on
RECURSIVE Regions(_, _)
Regions(doc, from) ==
    LET s == Find(doc, START, from)
        e == IF s = 0 THEN 0 ELSE Find(doc, END, s + 1)
    IN  IF s = 0 \/ e = 0 THEN 0 ELSE 1 + Regions(doc, e + 1)

\* C8: whenever the stripped document holds a <section id="posts"> element
\* with its closing tag, the wrapped fragment is inserted right before that
\* closing tag.
C8_InsideSection ==
    (pc \in {"write", "done"} /\ PostsClose(html_txt) # 0)
    => insert_at = PostsClose(html_txt) - 1

\* C9, as stated: the fragment always starts with the dated heading.
C9_HeadingAlways ==
    Built => Head(brief_html) = Heading(today)

\* C9, amended: the fragment starts with the dated heading whenever a
\* category or the watch term yields an item; when none does, the fragment
\* is the placeholder alone, without the heading.
C9_HeadingUnlessEmpty ==
    Built => /\ ~NoItems => Head(brief_html) = Heading(today)
             /\ NoItems => brief_html = <<Placeholder>>

\* a brief with a category block and the watch block, headed by the date
C9_Witness ==
    /\ pc = "done"
    /\ Len(parts) >= 3
    /\ parts[Len(parts)].name = "Client Watch"
    /\ Head(brief_html) = Heading(today)
    /\ Len(brief_html) = 2 * Len(parts) - 1

\* C10: when no category and no watch term yields an item, the fragment is
\* the placeholder, not the empty string, and the document written holds
\* exactly one marker-bounded region.
C10_EmptyUniverse ==
    (Built /\ NoItems)
    => /\ brief_html # <<>>
       /\ brief_html = <<Placeholder>>
       /\ pc = "done" => Regions(file, 1) = 1

\* nothing fetched, with a watch term and a key set, on a document that
\* held an old brief
C10_Witness ==
    /\ pc = "done"
    /\ NoItems
    /\ CLIENT_QUERY # "" /\ GNEWS_KEY
    /\ Count(doc0, Heading(0)) = 1
    /\ Count(file, Placeholder) = 1
    /\ Count(file, Heading(0)) = 0
    /\ Regions(file, 1) = 1

\* ---------------------------------------------------------------------
\* Composition of the brief

\* the blocks of the aggregations that kept an item, in the order of the log
RECURSIVE NonEmptyBlocks(_)
NonEmptyBlocks(log) ==
    IF log = <<>> THEN <<>>
    ELSE (IF Head(log).items = <<>> THEN <<>>
          ELSE <<Block(Head(log).name, Head(log).items)>>)
         \o NonEmptyBlocks(Tail(log))

\* C11: once the brief is built, the aggregations were run for the
\* categories of CATS in configured order, each once, then for the watch
\* term if one is configured; the brief is the heading followed by the blocks of exactly
\* those aggregations that kept an item, in that order, so the watch block,
\* when there is one, is the last block.
C11_CompositionOrder ==
    Built =>
        /\ Len(catLog) = Len(CATS) + (IF CLIENT_QUERY = "" THEN 0 ELSE 1)
        /\ \A i \in 1..Len(CATS) : catLog[i].name = CATS[i]
        /\ \A i \in 1..Len(catLog) :
              i > Len(CATS) => catLog[i].name = "Client Watch"
        /\ parts = <<Heading(today)>> \o NonEmptyBlocks(catLog)

C11_Witness ==
    /\ Built
    /\ Len(parts) = 3
    /\ parts[2].name = "Tech & AI"
    /\ parts[3].name = "Client Watch"
    /\ catLog[1].items = <<>>

\* C14: the watch block of a built brief holds at most 5 items and no two
\* items with the same title.
C14_WatchCapNoDup ==
    Built =>
        \A b \in 1..Len(parts) :
            parts[b].name = "Client Watch" =>
                /\ Len(parts[b].items) <= Cap
                /\ \A i, j \in 1..Len(parts[b].items) :
                      parts[b].items[i].text = parts[b].items[j].text => i = j

\* ---------------------------------------------------------------------
\* The strip step

\* doc with its complete regions deleted one after the other
RECURSIVE WithoutRegions(_)
WithoutRegions(doc) ==
    IF Regions(doc, 1) = 0 THEN doc ELSE WithoutRegions(WithoutRegion(doc))

\* C15 as stated: the strip step deletes the first complete marker region
\* only and leaves later regions in place; a document without a complete
\* region is left unchanged.
C15_FirstRegionOnly ==
    pc = "brief" =>
        html_txt = IF Regions(file, 1) = 0 THEN file ELSE WithoutRegion(file)

\* C15, amended: the strip step deletes every complete marker region and
\* leaves all other text in place and in order; a document without a
\* complete region is left unchanged.
C15_EveryRegion ==
    pc = "brief" =>
        /\ html_txt = WithoutRegions(file)
        /\ Regions(file, 1) = 0 => html_txt = file
        /\ Regions(html_txt, 1) = 0

C15_Witness ==
    /\ pc = "brief"
    /\ Regions(file, 1) = 2
    /\ Regions(html_txt, 1) = 0
    /\ html_txt # WithoutRegion(file)

\* ---------------------------------------------------------------------
\* Early stop of _section

\* C17: once the category holds 5 items, no step scans a further candidate
\* of the current feed (epos stays), issues a further fetch, feed or search
\* (fetchLog and feedIdx stay), or changes the items.
C17_EarlyStop ==
    [][Len(items) = Cap =>
          /\ epos' = epos
          /\ feedIdx' = feedIdx
          /\ fetchLog' = fetchLog
          /\ items' = items]_vars

\* the cap was reached with candidates of the current feed unscanned and a
\* feed not yet asked
C17_Witness ==
    /\ spc = "done"
    /\ Len(items) = Cap
    /\ epos < Len(entries)
    /\ feedIdx < FeedsPerCategory

\* ---------------------------------------------------------------------
\* The fallback anchor

\* character t is the letter c of the anchor, in either case
SameLetter(t, c) ==
    \/ t = c
    \/ <<t, c>> \in {<<Ch("M"), Ch("m")>>, <<Ch("A"), Ch("a")>>,
                     <<Ch("I"), Ch("i")>>, <<Ch("N"), Ch("n")>>}

\* the positions of doc where </main> stands, in either case
Anchors(doc) ==
    {p \in 1..(Len(doc) - Len(MainClose) + 1) :
        \A i \in 1..Len(MainClose) : SameLetter(doc[p + i - 1], MainClose[i])}

\* C16: when the content region is not found, the insertion point is
\* immediately before the last </main> of the text, in either case, and
\* the end of the text when there is none.
C16_BeforeLastAnchor ==
    (pc \in {"write", "done"} /\ SectionSearch(html_txt) = 0) =>
        insert_at = IF Anchors(html_txt) = {} THEN Len(html_txt)
                    ELSE (CHOOSE p \in Anchors(html_txt) :
                              \A q \in Anchors(html_txt) : q <= p) - 1

\* ---------------------------------------------------------------------
\* Malformed entries and the single write

\* C18: no run is aborted: an entry without title or link contributes
\* nothing and the run goes on to write the document.
C18_NeverAborts == pc # "aborted"

\* C19: the document is written at most once per run, by the last step and
\* after every aggregation was run; until then, and in a run that ends
\* early (index.html missing, or an exception during an aggregation), the
\* document is as it was at the start; when index.html is missing no
\* aggregation is run.
C19_SingleLateWrite ==
    /\ Len(frags) <= 1
    /\ pc # "done" => file = doc0 /\ frags = <<>>
    /\ pc = "done" =>
          /\ frags = <<brief_html>>
          /\ file = Splice(html_txt, insert_at, wrapped)
          /\ Len(catLog) >= Len(CATS)
    /\ pc = "exit" => doc0 = Missing
    /\ doc0 = Missing => catLog = <<>> /\ pc \in {"read", "exit"}

\* a run aborted during an aggregation, over a document that held an old
\* brief
C19_Witness ==
    /\ pc = "aborted"
    /\ catLog # <<>>
    /\ Regions(doc0, 1) > 0
    /\ file = doc0

-----------------------------------------------------------------------------
(* scripts_fetch_news.py: the NewsAPI variant.  It exits without NEWS_KEY, *)
(* builds the brief from the top headlines of seven countries per          *)
(* category, and inserts it before the last </section> of index.html.      *)
(* It writes no sentinel markers and removes nothing.  The documents it is *)
(* run on here hold no marker and no U+0130.                               *)

\* len(COUNTRY_ROLL)
NumCountries == 7
\* uniq[:5]
HeadlineCut == 5
\* data.get("articles", [])[:5]
ClientCut == 5

\* a NewsAPI article: a dict with "title" and "url"; the title may be absent
Article(t) == [title |-> t, url |-> 0]
Untitled == [url |-> 0]

\* batch.extend(_fetch_top(cty, category_code)) for the countries from c on;
\* _fetch_top returns [] when the request fails
RECURSIVE Batch(_, _)
Batch(ans, c) ==
    IF c > NumCountries THEN <<>> ELSE ans[c] \o Batch(ans, c + 1)

\* _dedup: articles without title and titles already seen are left out
RECURSIVE Dedup(_, _)
Dedup(arts, sn) ==
    IF arts = <<>> THEN <<>>
    ELSE IF ~HasTitle(Head(arts)) THEN Dedup(Tail(arts), sn)
    ELSE IF Head(arts).title \in sn THEN Dedup(Tail(arts), sn)
    ELSE <<Head(arts)>> \o Dedup(Tail(arts), sn \cup {Head(arts).title})

\* get_headlines
GetHeadlines(ans) == Cut(Dedup(Batch(ans, 1), {}), HeadlineCut)

\* the <li> of an article; a missing title is rendered as the empty text
ArticleItem(a) ==
    [href |-> a.url, text |-> IF HasTitle(a) THEN a.title ELSE 0]

\* build_category_block: the article block, whatever the headlines
BuildCategoryBlock(header, ans) ==
    Block(header, [i \in 1..Len(GetHeadlines(ans)) |->
                      ArticleItem(GetHeadlines(ans)[i])])

\* build_client_block: "" when the request fails or returns no article
DailyClientBlock(q, arts) ==
    IF arts = <<>> THEN <<>>
    ELSE <<Block("Client Watch",
                 [i \in 1..Len(Cut(arts, ClientCut)) |->
                     ArticleItem(Cut(arts, ClientCut)[i])])>>

\* what the seven requests of a category return: nothing at all, one
\* article, the same article from two countries, more articles than are
\* kept, an article without title
Quiet == [c \in 1..NumCountries |-> <<>>]

DailyAnswers ==
    {Quiet,
     [Quiet EXCEPT ![1] = <<Article(1)>>],
     [Quiet EXCEPT ![1] = <<Article(1)>>, ![2] = <<Article(1), Article(2)>>],
     [Quiet EXCEPT ![1] = [i \in 1..(HeadlineCut + 1) |-> Article(i)]],
     [Quiet EXCEPT ![NumCountries] = <<Untitled>>]}

\* the first category is asked with each of these answers, the others with
\* the first two
AnswersFor(i) ==
    IF i = 1 THEN DailyAnswers
    ELSE {Quiet, [Quiet EXCEPT ![1] = <<Article(1)>>]}

DailyClientAnswers == {<<>>, <<Article(1)>>, <<Article(1), Untitled>>}

DailyDocs ==
    {d \in DocsUpTo(MaxSegs - 2) : MarkerFree(d) /\ Count(d, IDot) = 0}
    \cup {Missing}

InitDaily ==
    /\ pc = "key"
    /\ file \in DailyDocs
    /\ doc0 = file
    /\ prevDoc = file
    /\ frags = <<>>
    /\ today = 1
    /\ API_KEY \in BOOLEAN
    /\ CLIENT_QUERY \in {"", "acme"}
    /\ GNEWS_KEY = FALSE
    /\ html_txt = <<>> /\ parts = <<>> /\ catIdx = 0
    /\ brief_html = <<>> /\ wrapped = <<>> /\ insert_at = 0
    /\ catLog = <<>>
    /\ IdleSection

\* if not API_KEY: _sys.exit(...)
ExitNoKey ==
    /\ pc = "key"
    /\ ~API_KEY
    /\ pc' = "exit"
    /\ UNCHANGED <<file, html_txt, parts, catIdx, brief_html, wrapped,
                   insert_at, today, CLIENT_QUERY, GNEWS_KEY, API_KEY, doc0,
                   prevDoc, frags, catLog, secVars>>

\* build_daily_brief: parts = [dated heading]
StartDailyBrief ==
    /\ pc = "key"
    /\ API_KEY
    /\ parts' = <<Heading(today)>>
    /\ catIdx' = 0
    /\ catLog' = <<>>
    /\ pc' = "cats"
    /\ UNCHANGED <<file, html_txt, brief_html, wrapped, insert_at, today,
                   CLIENT_QUERY, GNEWS_KEY, API_KEY, doc0, prevDoc, frags,
                   secVars>>

\* for hdr, code in CATS.items(): parts.append(build_category_block(...))
AppendCategoryBlock ==
    /\ pc = "cats"
    /\ catIdx < Len(CATS)
    /\ \E ans \in AnswersFor(catIdx + 1) :
          /\ parts' = Append(parts, BuildCategoryBlock(CATS[catIdx + 1], ans))
          /\ catLog' = Append(catLog,
                [name |-> CATS[catIdx + 1],
                 items |-> BuildCategoryBlock(CATS[catIdx + 1], ans).items])
    /\ catIdx' = catIdx + 1
    /\ UNCHANGED <<pc, file, html_txt, brief_html, wrapped, insert_at, today,
                   CLIENT_QUERY, GNEWS_KEY, API_KEY, doc0, prevDoc, frags,
                   secVars>>

\* if CLIENT_Q: the client block is appended when it is not empty;
\* return "\n".join(parts)
AppendClientBlock ==
    /\ pc = "cats"
    /\ catIdx = Len(CATS)
    /\ \E arts \in DailyClientAnswers :
          parts' = IF CLIENT_QUERY = "" THEN parts
                   ELSE parts \o DailyClientBlock(CLIENT_QUERY, arts)
    /\ brief_html' = Join(parts')
    /\ pc' = "inject"
    /\ UNCHANGED <<file, html_txt, catIdx, wrapped, insert_at, today,
                   CLIENT_QUERY, GNEWS_KEY, API_KEY, doc0, prevDoc, frags,
                   catLog, secVars>>

\* inject_into_index: html = f.read()
ReadIndexDaily ==
    /\ pc = "inject"
    /\ file # Missing
    /\ html_txt' = file
    /\ pc' = "find"
    /\ UNCHANGED <<file, parts, catIdx, brief_html, wrapped, insert_at, today,
                   CLIENT_QUERY, GNEWS_KEY, API_KEY, doc0, prevDoc, frags,
                   catLog, secVars>>

\* except FileNotFoundError: _sys.exit("index.html not found at repo root")
ExitIndexNotFound ==
    /\ pc = "inject"
    /\ file = Missing
    /\ pc' = "exit"
    /\ UNCHANGED <<file, html_txt, parts, catIdx, brief_html, wrapped,
                   insert_at, today, CLIENT_QUERY, GNEWS_KEY, API_KEY, doc0,
                   prevDoc, frags, catLog, secVars>>

\* insert_pos == -1: _sys.exit("</section> tag not found ...")
ExitNoSection ==
    /\ pc = "find"
    /\ RFindStr(Lower(html_txt), <<SectionClose>>) = 0
    /\ pc' = "exit"
    /\ UNCHANGED <<file, html_txt, parts, catIdx, brief_html, wrapped,
                   insert_at, today, CLIENT_QUERY, GNEWS_KEY, API_KEY, doc0,
                   prevDoc, frags, catLog, secVars>>

\* updated = html[:insert_pos] + block + html[insert_pos:]; f.write(updated)
InjectIntoIndex ==
    /\ pc = "find"
    /\ RFindStr(Lower(html_txt), <<SectionClose>>) # 0
    /\ insert_at' = RFindStr(Lower(html_txt), <<SectionClose>>) - 1
    /\ file' = Splice(html_txt, insert_at', brief_html)
    /\ prevDoc' = file
    /\ frags' = Append(frags, brief_html)
    /\ pc' = "done"
    /\ UNCHANGED <<html_txt, parts, catIdx, brief_html, wrapped, today,
                   CLIENT_QUERY, GNEWS_KEY, API_KEY, doc0, catLog, secVars>>

\* the script is started again on the document it wrote, the day after
RunAgainDaily ==
    /\ pc = "done"
    /\ Len(frags) < MaxRuns
    /\ pc' = "key"
    /\ today' = today + 1
    /\ html_txt' = <<>> /\ parts' = <<>> /\ catIdx' = 0
    /\ brief_html' = <<>> /\ insert_at' = 0 /\ catLog' = <<>>
    /\ UNCHANGED <<file, wrapped, CLIENT_QUERY, GNEWS_KEY, API_KEY, doc0,
                   prevDoc, frags, secVars>>

NextDaily ==
    \/ ExitNoKey
    \/ StartDailyBrief
    \/ AppendCategoryBlock
    \/ AppendClientBlock
    \/ ReadIndexDaily
    \/ ExitIndexNotFound
    \/ ExitNoSection
    \/ InjectIntoIndex
    \/ RunAgainDaily

SpecDaily == InitDaily /\ [][NextDaily]_vars

\* the dated headings in doc: one per brief fragment
Headings(doc) == {i \in 1..Len(doc) : doc[i].k = "heading"}

\* C12: whatever the number of runs of scripts_fetch_news.py on a
\* document, the document holds at most one brief fragment.
C12_OneLiveFragment == Cardinality(Headings(file)) <= 1

\* C13: in the brief built by build_daily_brief, a category whose headline
\* list is empty has no block.
C13_EmptyCategoryDropped ==
    pc \in {"inject", "find", "done"} =>
        \A i \in 1..Len(CATS) :
            catLog[i].items = <<>> =>
                \A b \in 1..Len(parts) : parts[b].name # CATS[i]

====
